---- MODULE Spec2Model ----
(***************************************************************************)
(* A model of bot.py: the per-account CDR polling workers, the shared      *)
(* seen_ids set, the login / structured / HTML fetch pipeline and the      *)
(* Telegram send helper.                                                   *)
(*                                                                         *)
(* Strings are sequences of one-character strings, so that concatenation   *)
(* (the f-string that builds a record id) is \o and a separator inside a   *)
(* field is visible to the model.                                          *)
(***************************************************************************)
EXTENDS Integers, Sequences, FiniteSets, TLC

\* ------------------------------------------------------------------------
\* Bounds of the model
\* ------------------------------------------------------------------------
\* polling cycles each worker may start
MaxCycles == 2
\* rows in one structured list or one HTML table
MaxRows == 2
\* elements of a columnar row / cells of a table row (one more than the 5 read)
MaxCols == 6

\* ------------------------------------------------------------------------
\* Strings
\* ------------------------------------------------------------------------
Empty == <<>>
Sep == <<"_">>
SA == <<"a">>
SB == <<"b">>
SSp == <<" ">>

\* the strings of Scenario A
S100 == <<"1", "0", "0">>
S200 == <<"2", "0", "0">>
S30 == <<"3", "0">>
SAnswered == <<"a", "n", "s", "w", "e", "r", "e", "d">>
STime == <<"2", "0", "2", "4", "-", "0", "1", "-", "0", "1", " ",
           "1", "0", ":", "0", "0", ":", "0", "0">>
SMail == <<"a", "@", "x", ".", "c", "o", "m">>

\* str.strip(): leading and trailing whitespace removed
RECURSIVE LStrip(_)
LStrip(s) == IF s # <<>> /\ Head(s) = " " THEN LStrip(Tail(s)) ELSE s

RECURSIVE RStrip(_)
RStrip(s) ==
    IF s # <<>> /\ s[Len(s)] = " " THEN RStrip(SubSeq(s, 1, Len(s) - 1)) ELSE s

Strip(s) == RStrip(LStrip(s))

\* safe_text(x) for a string x: str(x) is x
safe_text(x) == x

\* ------------------------------------------------------------------------
\* Record normalisation (fetch_cdr_for_account, steps 3 and 4)
\* ------------------------------------------------------------------------
\* uid = f"{email}_{cli}_{time_str}"
IdentityNoAccount(email, cli, time_str) == cli \o Sep \o time_str

Identity(email, cli, time_str) == email \o Sep \o cli \o Sep \o time_str

MakeRecord(email, cli, to_num, time_str, duration, call_type) ==
    [id |-> Identity(email, cli, time_str), cli |-> cli, to |-> to_num,
     time |-> time_str, duration |-> duration, type |-> call_type,
     account |-> email]

\* row[i] if len(row) > i else ""
Col(row, i) == IF Len(row) > i THEN row[i + 1] ELSE Empty

\* row.get(k1) or row.get(k2) or ... or ""
RECURSIVE FirstPresent(_, _)
FirstPresent(row, keys) ==
    IF keys = <<>> THEN Empty
    ELSE IF Head(keys) \in DOMAIN row
         THEN row[Head(keys)]
         ELSE FirstPresent(row, Tail(keys))

RECURSIVE FirstTruthy(_, _)
FirstTruthy(row, keys) ==
    IF keys = <<>> THEN Empty
    ELSE IF Head(keys) \in DOMAIN row /\ row[Head(keys)] # Empty
         THEN row[Head(keys)]
         ELSE FirstTruthy(row, Tail(keys))

CliKeys == <<"cli", "source", "caller", "from">>
ToKeys == <<"to", "destination">>
TimeKeys == <<"time", "timestamp", "start_time">>
DurationKeys == <<"duration">>
TypeKeys == <<"type", "status">>

NormalizeList(email, row) ==
    MakeRecord(email, safe_text(Col(row, 0)), safe_text(Col(row, 1)),
               safe_text(Col(row, 2)), safe_text(Col(row, 3)),
               safe_text(Col(row, 4)))

NormalizeDict(email, row) ==
    MakeRecord(email, safe_text(FirstTruthy(row, CliKeys)),
               safe_text(FirstTruthy(row, ToKeys)),
               safe_text(FirstTruthy(row, TimeKeys)),
               safe_text(FirstTruthy(row, DurationKeys)),
               safe_text(FirstTruthy(row, TypeKeys)))

\* the loop over data_array: a list row, a dict row, anything else is skipped
RECURSIVE RowsToRecords(_, _)
RowsToRecords(email, rows) ==
    IF rows = <<>> THEN <<>>
    ELSE LET row == Head(rows)
             rest == RowsToRecords(email, Tail(rows))
         IN  IF row.t = "list" THEN <<NormalizeList(email, row.v)>> \o rest
             ELSE IF row.t = "dict" THEN <<NormalizeDict(email, row.v)>> \o rest
             ELSE rest

IsList(j, k) == j.t = "dict" /\ k \in DOMAIN j.v /\ j.v[k].t = "list"

\* data_array: j["data"] if it is a list, else j["aaData"] if it is a list
DataArray(j) ==
    IF IsList(j, "data") THEN [found |-> TRUE, rows |-> j.v["data"].v]
    ELSE IF IsList(j, "aaData") THEN [found |-> TRUE, rows |-> j.v["aaData"].v]
    ELSE [found |-> FALSE, rows |-> <<>>]

\* results after step 3, for one outcome of client.get(CDR_API_TEMPLATE)
StructuredRecords(email, api) ==
    IF api.kind = "raise" THEN <<>>
    ELSE IF api.status # 200 THEN <<>>
    ELSE IF ~api.json THEN <<>>
    ELSE IF ~DataArray(api.body).found THEN <<>>
    ELSE RowsToRecords(email, DataArray(api.body).rows)

\* cols = [td.get_text(" ", strip=True) for td in tr.find_all("td")]
Cols(tr) == [i \in 1..Len(tr) |-> Strip(tr[i])]

\* the loop over tbody.find_all("tr"): a row without cells is skipped
RECURSIVE TrsToRecordsMin5(_, _)
TrsToRecordsMin5(email, trs) ==
    IF trs = <<>> THEN <<>>
    ELSE LET cols == Cols(Head(trs))
             rest == TrsToRecordsMin5(email, Tail(trs))
         IN  IF Len(cols) < 5 THEN rest
             ELSE <<MakeRecord(email, Col(cols, 0), Col(cols, 1), Col(cols, 2),
                               Col(cols, 3), Col(cols, 4))>> \o rest

RECURSIVE TrsToRecords(_, _)
TrsToRecords(email, trs) ==
    IF trs = <<>> THEN <<>>
    ELSE LET cols == Cols(Head(trs))
             rest == TrsToRecords(email, Tail(trs))
         IN  IF cols = <<>> THEN rest
             ELSE <<MakeRecord(email, Col(cols, 0), Col(cols, 1), Col(cols, 2),
                               Col(cols, 3), Col(cols, 4))>> \o rest

\* results after step 4, for one outcome of client.get(CDR_PAGE)
HtmlRecords(email, page) ==
    IF page.kind = "raise" THEN <<>>
    ELSE IF ~page.table THEN <<>>
    ELSE TrsToRecords(email, page.trs)

\* "if results:" after the structured loop decides whether step 4 runs
AlwaysFallback(results) == TRUE

NeedsFallback(results) == results = <<>>

\* steps 3 and 4 together: the records returned, the requests issued, and
\* whether an exception left the function
HtmlRaisePropagates(email, api, page) ==
    LET s == StructuredRecords(email, api)
    IN  IF ~NeedsFallback(s)
        THEN [records |-> s, reqs |-> <<"api">>, raised |-> FALSE]
        ELSE [records |-> HtmlRecords(email, page), reqs |-> <<"api", "html">>,
              raised |-> page.kind = "raise"]

FetchAfterLogin(email, api, page) ==
    LET s == StructuredRecords(email, api)
    IN  IF ~NeedsFallback(s)
        THEN [records |-> s, reqs |-> <<"api">>, raised |-> FALSE]
        ELSE [records |-> HtmlRecords(email, page), reqs |-> <<"api", "html">>,
              raised |-> FALSE]

\* ------------------------------------------------------------------------
\* Login (fetch_cdr_for_account, steps 1 and 2)
\* ------------------------------------------------------------------------
\* A login page is the sequence of its <input> elements, each with a name
\* and with or without a value attribute.
\* soup.find("input", {"name": "_token"}): the position of the first input
\* element named "_token", or 0
FindToken(html) ==
    LET S == {i \in 1..Len(html) : html[i].name = "_token"}
    IN  IF S = {} THEN 0 ELSE CHOOSE i \in S : \A k \in S : i <= k

ExtractTokenKeepsEmpty(html) ==
    LET i == FindToken(html)
    IN  IF i # 0 /\ html[i].hasValue
        THEN [present |-> TRUE, value |-> html[i].value]
        ELSE [present |-> FALSE, value |-> Empty]

extract_token_from_html(html) ==
    LET i == FindToken(html)
    IN  IF i # 0 /\ html[i].hasValue /\ html[i].value # Empty
        THEN [present |-> TRUE, value |-> html[i].value]
        ELSE [present |-> FALSE, value |-> Empty]

\* payload = {"email": email, "password": password}, plus "_token" if token
Payload(email, password, token) ==
    IF token.present
    THEN [k \in {"email", "password", "_token"} |->
            IF k = "email" THEN email
            ELSE IF k = "password" THEN password ELSE token.value]
    ELSE [k \in {"email", "password"} |->
            IF k = "email" THEN email ELSE password]

\* str.lower() on the words a response body is made of
LowerWord(w) ==
    CASE w = "Logout" -> "logout"
      [] w = "LOGOUT" -> "logout"
      [] w = "Dashboard" -> "dashboard"
      [] OTHER -> w

\* "marker" in r2.text.lower()
InLower(marker, text) == \E i \in 1..Len(text) : LowerWord(text[i]) = marker

\* r2.url.path.endswith("/login")
EndsWithLogin(path) == path # <<>> /\ path[Len(path)] = "login"

\* the condition under which fetch_cdr_for_account returns after the POST
LoginNeverFails(r2) == FALSE

LoginFailedOnPath(r2) == EndsWithLogin(r2.path)

LoginFailed(r2) ==
    ~(InLower("logout", r2.text) \/ InLower("dashboard", r2.text))
        /\ EndsWithLogin(r2.path)

\* steps 1 and 2 on a login page and a POST response that arrive: the
\* requests issued, the form posted, and whether the function returns here
LoginSteps(email, password, html, r2) ==
    [kind |-> "login",
     reqs |-> <<"login_get", "login_post">>,
     payload |-> Payload(email, password, extract_token_from_html(html)),
     failed |-> LoginFailed(r2)]

\* ------------------------------------------------------------------------
\* Inputs of the worker system: configurations and portal responses
\* ------------------------------------------------------------------------
Account(e, p) == [email |-> e, password |-> p]

\* two entries with the same identifier; two identifiers one of which,
\* followed by the separator, is a prefix of the other; an entry without
\* identifier before a complete one; an entry without secret after a
\* complete one; no entry
AccountLists ==
    { <<Account(SA, SB), Account(SA, SB)>>,
      <<Account(SA, SB), Account(SA \o Sep, SB)>>,
      <<Account(Empty, SB), Account(SA, SB)>>,
      <<Account(SA, SB), Account(SA, Empty)>>,
      <<>> }

Raise == [kind |-> "raise"]

Input(name, hasValue, value) ==
    [name |-> name, hasValue |-> hasValue, value |-> value]

LoginPage(html) == [kind |-> "login", html |-> html]

LoginPages == { LoginPage(<<>>), LoginPage(<<Input("_token", TRUE, SA)>>) }

PostResp(text, path) == [kind |-> "post", text |-> text, path |-> path]

\* redirected away from the login path; still on it, without a marker
PostResponses ==
    { PostResp(<<"Welcome">>, <<"home">>),
      PostResp(<<"Invalid">>, <<"login">>) }

ListRow(cells) == [t |-> "list", v |-> cells]
DictRow(f) == [t |-> "dict", v |-> f]
Scalar == [t |-> "scalar", v |-> <<>>]
JList(rows) == [t |-> "list", v |-> rows]
JDict(f) == [t |-> "dict", v |-> f]

ApiResp(status, json, body) ==
    [kind |-> "api", status |-> status, json |-> json, body |-> body]

DataObj(rows) == JDict([k \in {"data"} |-> JList(rows)])

\* callers chosen so that two records of one account differ and a record of
\* account "a" and one of account "a_" get the same id
Row5(cli) == <<cli, Empty, Empty, Empty, Empty>>

ApiResponses ==
    { ApiResp(200, TRUE, DataObj(<<ListRow(Row5(Sep))>>)),
      ApiResp(200, TRUE, DataObj(<<>>)) }

Page(table, trs) == [kind |-> "html", table |-> table, trs |-> trs]

HtmlPages ==
    { Page(TRUE, <<Row5(Empty), Row5(Sep)>>),
      Page(FALSE, <<>>) }

\* ------------------------------------------------------------------------
\* Inputs of the fetch function on its own (SpecFetch)
\* ------------------------------------------------------------------------
SeqsUpTo(S, n) == UNION {[1..k -> S] : k \in 0..n}

\* columnar rows of every length up to MaxCols; the caller and the timestamp
\* vary, the other fields are fixed
ColumnarRows ==
    UNION {{r \in [1..n -> {Empty, SA, SB}] :
              \A i \in 1..n : IF i \in {1, 3} THEN r[i] # SB ELSE r[i] = SB}
           : n \in 0..MaxCols}

\* keyed rows: each of these keys absent, empty or "a"
KeyedRows ==
    UNION {[D -> {Empty, SA}] : D \in SUBSET {"cli", "source", "time"}}

Elements ==
    {ListRow(r) : r \in ColumnarRows} \cup {DictRow(r) : r \in KeyedRows}
        \cup {Scalar}

\* one element of each kind, for the lists of several elements
FewElements ==
    { ListRow(<<>>), ListRow(<<SA, SB, SA>>), ListRow(Row5(SA)),
      DictRow([k \in {"cli", "time"} |-> SA]), DictRow(<<>>), Scalar }

ElementLists ==
    {<<e>> : e \in Elements} \cup SeqsUpTo(FewElements, MaxRows)

Obj1(k, v) == JDict([x \in {k} |-> v])
Obj2(v1, v2) == JDict([x \in {"data", "aaData"} |-> IF x = "data" THEN v1 ELSE v2])

OneRow == <<ListRow(Row5(SA))>>

\* HTTP 200 with a JSON body of every shape step 3 distinguishes
JsonBodies ==
    {Obj1("data", JList(l)) : l \in ElementLists}
        \cup {Obj1("aaData", JList(l)) : l \in SeqsUpTo(Elements, 1)}
        \cup {Obj2(Scalar, JList(l)) : l \in SeqsUpTo(Elements, 1)}
        \cup { Obj2(JList(<<>>), JList(OneRow)), Obj2(JList(OneRow), JList(<<>>)),
               Obj1("rows", JList(OneRow)), Obj1("data", Scalar),
               JList(OneRow), Scalar }

ScenarioA ==
    ApiResp(200, TRUE,
            Obj1("data", JList(<<ListRow(<<S100, S200, STime, S30, SAnswered>>)>>)))

WideApi ==
    {ApiResp(200, TRUE, b) : b \in JsonBodies}
        \cup { ScenarioA, ApiResp(200, FALSE, Scalar),
               ApiResp(500, TRUE, Obj1("data", JList(OneRow))), Raise }

\* outcomes of the structured request after which step 4 runs
FallbackApi ==
    { Raise, ApiResp(200, FALSE, Scalar), ApiResp(200, TRUE, Obj1("data", JList(<<>>))),
      ApiResp(200, TRUE, Obj1("rows", JList(OneRow))) }

\* table rows of every length up to MaxCols; cell text with and without
\* surrounding whitespace
TableRows ==
    UNION {{r \in [1..n -> {SA, SSp \o SA \o SSp, SB}] :
              \A i \in 1..n : IF i \in {1, 3} THEN r[i] # SB ELSE r[i] = SB}
           : n \in 0..MaxCols}

FewTableRows ==
    { <<>>, <<SA>>, <<SA, SB, SSp \o SA>>, <<SA, SB, SA, SB>>, Row5(SA),
      <<SB, SB, SA, SB, SB, SB>> }

WidePages ==
    {Page(TRUE, <<tr>>) : tr \in TableRows}
        \cup {Page(TRUE, trs) : trs \in SeqsUpTo(FewTableRows, MaxRows)}
        \cup {Page(FALSE, <<>>), Raise}

\* keyed rows over the aliases of one canonical field: each alias absent,
\* empty, "a" or "b"
RowsOver(keys) ==
    UNION {[D -> {Empty, SA, SB}] :
             D \in SUBSET {keys[i] : i \in 1..Len(keys)}}

AliasRows ==
    RowsOver(CliKeys) \cup RowsOver(ToKeys) \cup RowsOver(TimeKeys)
        \cup RowsOver(DurationKeys) \cup RowsOver(TypeKeys)

AliasApi ==
    {ApiResp(200, TRUE, Obj1("data", JList(<<DictRow(r)>>))) : r \in AliasRows}

FetchEmails == {SA, SA \o Sep, SMail}

FetchInput(e, api, page) ==
    [kind |-> "input", email |-> e, api |-> api, page |-> page]

FetchInputs ==
    {FetchInput(e, api, page) :
        e \in FetchEmails, api \in WideApi, page \in HtmlPages \cup {Raise}}
      \cup {FetchInput(e, api, page) :
        e \in FetchEmails, api \in FallbackApi, page \in WidePages}
      \cup {FetchInput(SA, api, Page(FALSE, <<>>)) : api \in AliasApi}

\* ------------------------------------------------------------------------
\* Inputs of the login steps on their own (SpecLogin)
\* ------------------------------------------------------------------------
\* <input> elements named "_token" or "email": without value attribute, with
\* an empty value, with "a", with a blank
InputElements ==
    {Input(n, FALSE, Empty) : n \in {"_token", "email"}}
        \cup {Input(n, TRUE, v) : n \in {"_token", "email"}, v \in {Empty, SA, SSp}}

LoginHtmls == SeqsUpTo(InputElements, 2)

\* bodies with and without a marker, in several capitalisations
PostTexts ==
    { <<>>, <<"Welcome">>, <<"Invalid">>, <<"Invalid", "Logout">>,
      <<"LOGOUT">>, <<"logout">>, <<"Dashboard">>, <<"dashboard", "Invalid">> }

\* final URL paths, as their segments: "", "/login", "/home", "/x/login",
\* "/login/x", "/login/"
PostPaths ==
    { <<>>, <<"login">>, <<"home">>, <<"x", "login">>, <<"login", "x">>,
      <<"login", "">> }

LoginInput(e, p, html, r2) ==
    [kind |-> "login", email |-> e, password |-> p, html |-> html, r2 |-> r2]

\* every page with one POST response, and one page with every POST response
LoginInputs ==
    {LoginInput(SA, SB, h, PostResp(<<"Welcome">>, <<"home">>)) : h \in LoginHtmls}
        \cup {LoginInput(SA, SB, <<>>, PostResp(t, p)) :
                 t \in PostTexts, p \in PostPaths}

\* ------------------------------------------------------------------------
\* State
\* ------------------------------------------------------------------------
VARIABLES
    BOT_TOKEN,   \* configuration read from the environment (0: unset)
    CHAT_ID,
    OWNER_ID,
    ACCOUNTS,
    mainpc,      \* position of main(): "start", "polling", "exit"
    tasks,       \* the coroutines on_post_init passed to asyncio.create_task,
                 \* in order
    hb,          \* position of heartbeat_task: "none", "created", "send",
                 \* "sleep"
    seen_ids,    \* the process-wide set of record ids
    pc,          \* per worker task: where it is suspended
    cycle,       \* per worker: polling cycles started
    payload,     \* per worker: body of the login POST in flight
    records,     \* per worker: the list the for loop is iterating
    idx,         \* per worker: position of the for loop in records
    reqs,        \* per worker: HTTP requests issued in the current cycle
    raw,         \* per worker: responses to the login POST and the CDR
                 \* requests received in the current cycle
    prevRaw,     \* per worker: the same of the previous cycle, kept until
                 \* the current cycle's fetch has returned
    same,        \* per worker: the current cycle's fetch received what the
                 \* previous cycle's fetch received
    added,       \* per worker: seen_ids.add calls in the current cycle
    sent,        \* per worker: send_record_to_telegram calls in the cycle
    err,         \* per worker: the current cycle ended in "except Exception"
    last,        \* per worker: the latest send_record_to_telegram call of
                 \* the cycle: the record id, the outcome of each send to
                 \* CHAT_ID, and the record ids named in messages to OWNER_ID
    stats,       \* per record id: insertions into seen_ids, calls of
                 \* send_record_to_telegram, and the account that inserted it
    fin,         \* input of the fetch function under SpecFetch
    fout         \* its result

cfgVars == <<BOT_TOKEN, CHAT_ID, OWNER_ID, ACCOUNTS>>
supVars == <<mainpc, tasks, hb>>
fetchVars == <<fin, fout>>
cycleVars == <<cycle, reqs, raw, prevRaw, same, err>>
dispVars == <<seen_ids, idx, added, sent, stats, last>>
vars == <<BOT_TOKEN, CHAT_ID, OWNER_ID, ACCOUNTS, mainpc, tasks, hb, seen_ids,
          pc, cycle,
          payload, records, idx, reqs, raw, prevRaw, same, added, sent, err,
          last, stats, fin, fout>>

Workers == DOMAIN ACCOUNTS

NoFetch == [kind |-> "none"]
NoSend == [id |-> Empty, sends |-> <<>>, alerts |-> <<>>]

Init ==
    /\ BOT_TOKEN \in {0, 1}
    /\ CHAT_ID \in {0, 1}
    /\ OWNER_ID \in {0, 1}
    /\ ACCOUNTS \in AccountLists
    /\ mainpc = "start"
    /\ tasks = <<>>
    /\ hb = "none"
    /\ seen_ids = {}
    /\ pc = [w \in Workers |-> "none"]
    /\ cycle = [w \in Workers |-> 0]
    /\ payload = [w \in Workers |-> <<>>]
    /\ records = [w \in Workers |-> <<>>]
    /\ idx = [w \in Workers |-> 0]
    /\ reqs = [w \in Workers |-> <<>>]
    /\ raw = [w \in Workers |-> <<>>]
    /\ prevRaw = [w \in Workers |-> <<>>]
    /\ same = [w \in Workers |-> FALSE]
    /\ added = [w \in Workers |-> 0]
    /\ sent = [w \in Workers |-> 0]
    /\ err = [w \in Workers |-> FALSE]
    /\ last = [w \in Workers |-> NoSend]
    /\ stats = <<>>
    /\ fin = NoFetch
    /\ fout = NoFetch

\* ------------------------------------------------------------------------
\* main and on_post_init
\* ------------------------------------------------------------------------
\* main(): without BOT_TOKEN, CHAT_ID or ACCOUNTS it returns; otherwise
\* run_polling runs on_post_init, which calls asyncio.create_task once per
\* account entry and then once for heartbeat_task, and returns: no task has
\* run yet
WorkerTask(i) == [coro |-> "account_worker", acc |-> i]
HeartbeatTask == [coro |-> "heartbeat_task", acc |-> 0]

mainFirstEntryOnly ==
    /\ mainpc = "start"
    /\ IF BOT_TOKEN = 0 \/ CHAT_ID = 0 \/ ACCOUNTS = <<>>
       THEN mainpc' = "exit" /\ pc' = pc /\ UNCHANGED <<tasks, hb>>
       ELSE /\ mainpc' = "polling"
            /\ pc' = [w \in Workers |-> IF w = 1 THEN "created" ELSE "none"]
            /\ tasks' = <<WorkerTask(1), HeartbeatTask>>
            /\ hb' = "created"
    /\ UNCHANGED <<cfgVars, fetchVars, cycleVars, dispVars, payload, records>>

main ==
    /\ mainpc = "start"
    /\ IF BOT_TOKEN = 0 \/ CHAT_ID = 0 \/ ACCOUNTS = <<>>
       THEN mainpc' = "exit" /\ pc' = pc /\ UNCHANGED <<tasks, hb>>
       ELSE /\ mainpc' = "polling"
            /\ pc' = [w \in Workers |-> "created"]
            /\ tasks' = [i \in 1..Len(ACCOUNTS) + 1 |->
                            IF i <= Len(ACCOUNTS) THEN WorkerTask(i)
                            ELSE HeartbeatTask]
            /\ hb' = "created"
    /\ UNCHANGED <<cfgVars, fetchVars, cycleVars, dispVars, payload, records>>

\* ------------------------------------------------------------------------
\* heartbeat_task
\* ------------------------------------------------------------------------
hbFrame == <<cfgVars, fetchVars, mainpc, tasks, cycleVars, dispVars, payload,
             records, pc>>

\* the top of "while True": with CHAT_ID set the message is sent
HeartbeatBeat ==
    /\ hb' = IF CHAT_ID # 0 THEN "send" ELSE "sleep"
    /\ UNCHANGED hbFrame

\* the task's first run
HeartbeatStart == hb = "created" /\ HeartbeatBeat

\* bot.send_message returns or raises (logged): asyncio.sleep(3600)
HeartbeatSendReturns ==
    /\ hb = "send"
    /\ hb' = "sleep"
    /\ UNCHANGED hbFrame

\* asyncio.sleep(3600) returns
HeartbeatSleepReturns == hb = "sleep" /\ HeartbeatBeat

\* ------------------------------------------------------------------------
\* account_worker
\* ------------------------------------------------------------------------
\* The tasks run on one asyncio event loop: a task runs alone from one await
\* to its next await. Each action below is one such stretch: the return (or
\* the exception) of the awaited call and the code up to the next await.
\* The "if not CHAT_ID" exit of send_record_to_telegram is not taken: main
\* creates no task unless CHAT_ID is set.
Stat(st, id) ==
    IF id \in DOMAIN st THEN st[id] ELSE [ins |-> 0, calls |-> 0, by |-> Empty]

\* one more insertion of id and one more send_record_to_telegram call for it
Count(st, rec) ==
    [x \in DOMAIN st \cup {rec.id} |->
        IF x = rec.id THEN [ins |-> Stat(st, x).ins + 1,
                            calls |-> Stat(st, x).calls + 1,
                            by |-> rec.account]
        ELSE st[x]]

\* the outcome of the send in flight replaces the last entry
Resolve(l, outcome) ==
    [l EXCEPT !.sends = SubSeq(@, 1, Len(@) - 1) \o <<outcome>>]

\* if rec["id"] not in seen_ids
AlwaysNew(id, seen) == TRUE

IsNew(id, seen) == id \notin seen

\* seen_ids.add(rec["id"])
MarkSeenOnly(seen, id) == {id}

MarkSeenNot(seen, id) == seen

MarkSeen(seen, id) == seen \cup {id}

\* if OWNER_ID: after both sends failed
AlertAlways(owner) == TRUE

ShouldAlert(owner) == owner # 0

\* the first position from i on whose record is not in seen_ids, or 0
NextNew(recs, i, seen) ==
    LET S == {j \in i..Len(recs) : IsNew(recs[j].id, seen)}
    IN  IF S = {} THEN 0 ELSE CHOOSE j \in S : \A k \in S : j <= k

\* the for loop from position i up to its next await: records already seen
\* are passed over; the first new one is added and its send is issued; with
\* none left the worker reaches asyncio.sleep. l is the latest send call.
DispatchWithoutAwait(w, recs, i, l) ==
    LET j == NextNew(recs, i, seen_ids)
    IN  /\ pc' = [pc EXCEPT ![w] = "sleep"]
        /\ idx' = [idx EXCEPT ![w] = 0]
        /\ records' = [records EXCEPT ![w] = <<>>]
        /\ IF j = 0
           THEN /\ last' = [last EXCEPT ![w] = l]
                /\ UNCHANGED <<seen_ids, added, sent, stats>>
           ELSE /\ seen_ids' = MarkSeen(seen_ids, recs[j].id)
                /\ added' = [added EXCEPT ![w] = @ + 1]
                /\ sent' = [sent EXCEPT ![w] = @ + 1]
                /\ stats' = Count(stats, recs[j])
                /\ last' = [last EXCEPT ![w] =
                       [id |-> recs[j].id, sends |-> <<"pending">>,
                        alerts |-> <<>>]]

Dispatch(w, recs, i, l) ==
    LET j == NextNew(recs, i, seen_ids)
    IN  IF j = 0
        THEN /\ pc' = [pc EXCEPT ![w] = "sleep"]
             /\ idx' = [idx EXCEPT ![w] = 0]
             /\ records' = [records EXCEPT ![w] = <<>>]
             /\ last' = [last EXCEPT ![w] = l]
             /\ UNCHANGED <<seen_ids, added, sent, stats>>
        ELSE /\ pc' = [pc EXCEPT ![w] = "send1"]
             /\ idx' = [idx EXCEPT ![w] = j]
             /\ records' = [records EXCEPT ![w] = recs]
             /\ seen_ids' = MarkSeen(seen_ids, recs[j].id)
             /\ added' = [added EXCEPT ![w] = @ + 1]
             /\ sent' = [sent EXCEPT ![w] = @ + 1]
             /\ stats' = Count(stats, recs[j])
             /\ last' = [last EXCEPT ![w] =
                    [id |-> recs[j].id, sends |-> <<"pending">>,
                     alerts |-> <<>>]]

\* the top of "while True": fetch_cdr_for_account issues the login page GET
BeginCycleKeepsSession(w) ==
    /\ cycle[w] < MaxCycles
    /\ cycle' = [cycle EXCEPT ![w] = @ + 1]
    /\ pc' = [pc EXCEPT ![w] = IF cycle[w] = 0 THEN "login_get" ELSE "api_get"]
    /\ reqs' = [reqs EXCEPT ![w] =
                    IF cycle[w] = 0 THEN <<"login_get">> ELSE <<"api">>]
    /\ prevRaw' = [prevRaw EXCEPT ![w] = raw[w]]
    /\ raw' = [raw EXCEPT ![w] = <<>>]
    /\ same' = [same EXCEPT ![w] = FALSE]
    /\ added' = [added EXCEPT ![w] = 0]
    /\ sent' = [sent EXCEPT ![w] = 0]
    /\ err' = [err EXCEPT ![w] = FALSE]
    /\ last' = [last EXCEPT ![w] = NoSend]
    /\ UNCHANGED <<cfgVars, fetchVars, supVars, seen_ids, payload, records, idx,
                   stats>>

BeginCycle(w) ==
    /\ cycle[w] < MaxCycles
    /\ cycle' = [cycle EXCEPT ![w] = @ + 1]
    /\ pc' = [pc EXCEPT ![w] = "login_get"]
    /\ reqs' = [reqs EXCEPT ![w] = <<"login_get">>]
    /\ prevRaw' = [prevRaw EXCEPT ![w] = raw[w]]
    /\ raw' = [raw EXCEPT ![w] = <<>>]
    /\ same' = [same EXCEPT ![w] = FALSE]
    /\ added' = [added EXCEPT ![w] = 0]
    /\ sent' = [sent EXCEPT ![w] = 0]
    /\ err' = [err EXCEPT ![w] = FALSE]
    /\ last' = [last EXCEPT ![w] = NoSend]
    /\ UNCHANGED <<cfgVars, fetchVars, supVars, seen_ids, payload, records, idx,
                   stats>>

\* r is the last response of the cycle's fetch
EndFetch(w, r) ==
    /\ raw' = [raw EXCEPT ![w] = Append(@, r)]
    /\ same' = [same EXCEPT ![w] = cycle[w] > 1 /\ Append(raw[w], r) = prevRaw[w]]
    /\ prevRaw' = [prevRaw EXCEPT ![w] = <<>>]

\* an exception left fetch_cdr_for_account: logged, then asyncio.sleep
WorkerErrorEndsTask(w, r) ==
    /\ pc' = [pc EXCEPT ![w] = "returned"]
    /\ err' = [err EXCEPT ![w] = TRUE]
    /\ payload' = [payload EXCEPT ![w] = <<>>]
    /\ EndFetch(w, r)
    /\ UNCHANGED <<cfgVars, fetchVars, supVars, dispVars, cycle, reqs, records>>

WorkerErrorStopsOthers(w, r) ==
    /\ pc' = [v \in Workers |-> IF v = w THEN "sleep" ELSE "returned"]
    /\ err' = [err EXCEPT ![w] = TRUE]
    /\ payload' = [payload EXCEPT ![w] = <<>>]
    /\ EndFetch(w, r)
    /\ UNCHANGED <<cfgVars, fetchVars, supVars, dispVars, cycle, reqs, records>>

WorkerError(w, r) ==
    /\ pc' = [pc EXCEPT ![w] = "sleep"]
    /\ err' = [err EXCEPT ![w] = TRUE]
    /\ payload' = [payload EXCEPT ![w] = <<>>]
    /\ EndFetch(w, r)
    /\ UNCHANGED <<cfgVars, fetchVars, supVars, dispVars, cycle, reqs, records>>

\* the task's first run: an entry without email or password returns
WorkerStartUnchecked(w) ==
    /\ pc[w] = "created"
    /\ BeginCycle(w)

WorkerStart(w) ==
    /\ pc[w] = "created"
    /\ IF ACCOUNTS[w].email = Empty \/ ACCOUNTS[w].password = Empty
       THEN /\ pc' = [pc EXCEPT ![w] = "returned"]
            /\ UNCHANGED <<cfgVars, fetchVars, supVars, cycleVars, dispVars,
                           payload, records>>
       ELSE BeginCycle(w)

LoginGetReturns(w) ==
    /\ pc[w] = "login_get"
    /\ \E r \in LoginPages \cup {Raise} :
        IF r.kind = "raise" THEN WorkerError(w, r)
        ELSE /\ payload' = [payload EXCEPT ![w] =
                    Payload(ACCOUNTS[w].email, ACCOUNTS[w].password,
                            extract_token_from_html(r.html))]
             /\ pc' = [pc EXCEPT ![w] = "login_post"]
             /\ reqs' = [reqs EXCEPT ![w] = Append(@, "login_post")]
             /\ UNCHANGED <<cfgVars, fetchVars, supVars, dispVars, cycle, raw,
                            prevRaw, same, err, records>>

LoginPostReturns(w) ==
    /\ pc[w] = "login_post"
    /\ \E r \in PostResponses \cup {Raise} :
        IF r.kind = "raise" THEN WorkerError(w, r)
        ELSE /\ payload' = [payload EXCEPT ![w] = <<>>]
             /\ IF LoginFailed(r)
                THEN \* return results (empty): the for loop has nothing to do
                     /\ pc' = [pc EXCEPT ![w] = "sleep"]
                     /\ EndFetch(w, r)
                     /\ UNCHANGED reqs
                ELSE /\ pc' = [pc EXCEPT ![w] = "api_get"]
                     /\ reqs' = [reqs EXCEPT ![w] = Append(@, "api")]
                     /\ raw' = [raw EXCEPT ![w] = Append(@, r)]
                     /\ UNCHANGED <<prevRaw, same>>
             /\ UNCHANGED <<cfgVars, fetchVars, supVars, dispVars, cycle, err,
                            records>>

ApiGetReturns(w) ==
    /\ pc[w] = "api_get"
    /\ \E r \in ApiResponses \cup {Raise} :
        LET results == StructuredRecords(ACCOUNTS[w].email, r)
        IN  /\ IF NeedsFallback(results)
               THEN /\ pc' = [pc EXCEPT ![w] = "html_get"]
                    /\ reqs' = [reqs EXCEPT ![w] = Append(@, "html")]
                    /\ raw' = [raw EXCEPT ![w] = Append(@, r)]
                    /\ UNCHANGED <<records, dispVars, prevRaw, same>>
               ELSE /\ EndFetch(w, r)
                    /\ Dispatch(w, results, 1, last[w])
                    /\ UNCHANGED reqs
            /\ UNCHANGED <<cfgVars, fetchVars, supVars, cycle, err, payload>>

HtmlGetReturns(w) ==
    /\ pc[w] = "html_get"
    /\ \E r \in HtmlPages \cup {Raise} :
        /\ EndFetch(w, r)
        /\ Dispatch(w, HtmlRecords(ACCOUNTS[w].email, r), 1, last[w])
        /\ UNCHANGED <<cfgVars, fetchVars, supVars, cycle, reqs, err, payload>>

\* ------------------------------------------------------------------------
\* send_record_to_telegram, as called from the worker's for loop
\* ------------------------------------------------------------------------
sendFrame == <<cfgVars, fetchVars, supVars, cycleVars, payload>>

\* the first bot.send_message returns or raises
Send1Returns(w) ==
    /\ pc[w] = "send1"
    /\ \/ Dispatch(w, records[w], idx[w] + 1, Resolve(last[w], "ok"))
       \/ /\ pc' = [pc EXCEPT ![w] = "send2"]
          /\ last' = [last EXCEPT ![w] =
                 [Resolve(@, "fail") EXCEPT !.sends = @ \o <<"pending">>]]
          /\ UNCHANGED <<seen_ids, idx, added, sent, stats, records>>
    /\ UNCHANGED sendFrame

\* the retry returns or raises; after two failures the owner is notified
Send2Returns(w) ==
    /\ pc[w] = "send2"
    /\ \/ Dispatch(w, records[w], idx[w] + 1, Resolve(last[w], "ok"))
       \/ IF ShouldAlert(OWNER_ID)
          THEN /\ pc' = [pc EXCEPT ![w] = "send_owner"]
               /\ last' = [last EXCEPT ![w] =
                      [Resolve(@, "fail") EXCEPT
                          !.alerts = Append(@, records[w][idx[w]].id)]]
               /\ UNCHANGED <<seen_ids, idx, added, sent, stats, records>>
          ELSE Dispatch(w, records[w], idx[w] + 1, Resolve(last[w], "fail"))
    /\ UNCHANGED sendFrame

\* the message to OWNER_ID returns or raises: either way the helper returns
SendOwnerReturns(w) ==
    /\ pc[w] = "send_owner"
    /\ Dispatch(w, records[w], idx[w] + 1, last[w])
    /\ UNCHANGED sendFrame

\* asyncio.sleep(POLL_INTERVAL) returns: the next cycle begins
SleepReturns(w) ==
    /\ pc[w] = "sleep"
    /\ BeginCycle(w)

Next ==
    \/ main
    \/ \E w \in Workers : WorkerStart(w)
    \/ \E w \in Workers : LoginGetReturns(w)
    \/ \E w \in Workers : LoginPostReturns(w)
    \/ \E w \in Workers : ApiGetReturns(w)
    \/ \E w \in Workers : HtmlGetReturns(w)
    \/ \E w \in Workers : Send1Returns(w)
    \/ \E w \in Workers : Send2Returns(w)
    \/ \E w \in Workers : SendOwnerReturns(w)
    \/ \E w \in Workers : SleepReturns(w)
    \/ HeartbeatStart
    \/ HeartbeatSendReturns
    \/ HeartbeatSleepReturns

Spec == Init /\ [][Next]_vars

\* The indices an account list can have
WorkerIds == {1, 2}

\* the steps of the task of account entry w
WorkerNext(w) ==
    /\ w \in Workers
    /\ \/ WorkerStart(w)
       \/ LoginGetReturns(w)
       \/ LoginPostReturns(w)
       \/ ApiGetReturns(w)
       \/ HtmlGetReturns(w)
       \/ Send1Returns(w)
       \/ Send2Returns(w)
       \/ SendOwnerReturns(w)
       \/ SleepReturns(w)

HeartbeatNext == HeartbeatStart \/ HeartbeatSendReturns \/ HeartbeatSleepReturns

\* Every awaited call returns or raises in the end: the HTTP client is built
\* with timeout=30.0, asyncio.sleep ends after its delay, and the event loop
\* runs every task that is ready. run_polling runs on_post_init.
Fairness ==
    /\ WF_vars(main)
    /\ \A w \in WorkerIds : WF_vars(WorkerNext(w))
    /\ WF_vars(HeartbeatNext)

\* a configuration that starts the tasks: two complete entries, or an
\* entry without identifier and a complete one
InitFair ==
    /\ Init
    /\ BOT_TOKEN = 1
    /\ CHAT_ID = 1
    /\ OWNER_ID = 1
    /\ ACCOUNTS \in { <<Account(SA, SB), Account(SA \o Sep, SB)>>,
                       <<Account(Empty, SB), Account(SA, SB)>> }

FairSpec == InitFair /\ [][Next]_vars /\ Fairness

\* The first entry's task may fail in every cycle, or wait for ever in any
\* of its awaited calls: only the other tasks are assumed to be resumed.
OthersFair ==
    /\ WF_vars(main)
    /\ WF_vars(WorkerNext(2))
    /\ WF_vars(HeartbeatNext)

IsolationSpec == InitFair /\ [][Next]_vars /\ OthersFair

\* ------------------------------------------------------------------------
\* The fetch function on its own: steps 3 and 4 applied to one input
\* ------------------------------------------------------------------------
\* a function applied on its own: main has returned and no task exists
NoTasks ==
    /\ BOT_TOKEN = 0
    /\ CHAT_ID = 0
    /\ OWNER_ID = 0
    /\ ACCOUNTS = <<>>
    /\ mainpc = "exit"
    /\ tasks = <<>>
    /\ hb = "none"
    /\ seen_ids = {}
    /\ pc = <<>>
    /\ cycle = <<>>
    /\ payload = <<>>
    /\ records = <<>>
    /\ idx = <<>>
    /\ reqs = <<>>
    /\ raw = <<>>
    /\ prevRaw = <<>>
    /\ same = <<>>
    /\ added = <<>>
    /\ sent = <<>>
    /\ err = <<>>
    /\ last = <<>>
    /\ stats = <<>>

InitFetch ==
    /\ NoTasks
    /\ fin \in FetchInputs
    /\ fout = NoFetch

FetchApply ==
    /\ fout = NoFetch
    /\ fout' = FetchAfterLogin(fin.email, fin.api, fin.page)
    /\ UNCHANGED <<cfgVars, supVars, cycleVars, dispVars, payload, records, pc,
                   fin>>

NextFetch == FetchApply

SpecFetch == InitFetch /\ [][NextFetch]_vars

\* ------------------------------------------------------------------------
\* The login steps on their own: steps 1 and 2 applied to one input
\* ------------------------------------------------------------------------
InitLogin ==
    /\ NoTasks
    /\ fin \in LoginInputs
    /\ fout = NoFetch

LoginApply ==
    /\ fout = NoFetch
    /\ fout' = LoginSteps(fin.email, fin.password, fin.html, fin.r2)
    /\ UNCHANGED <<cfgVars, supVars, cycleVars, dispVars, payload, records, pc,
                   fin>>

NextLogin == LoginApply

SpecLogin == InitLogin /\ [][NextLogin]_vars

\* ------------------------------------------------------------------------
\* Properties of the fetch function (checked under SpecFetch)
\* ------------------------------------------------------------------------
Fetched == fout # NoFetch

\* a JSON object with a known top-level list field
WellFormed(api) ==
    /\ api.kind = "api"
    /\ api.status = 200
    /\ api.json
    /\ IsList(api.body, "data") \/ IsList(api.body, "aaData")

\* the list step 3 reads: "data" if it is a list, otherwise "aaData"
KnownList(api) ==
    IF IsList(api.body, "data") THEN api.body.v["data"].v
    ELSE api.body.v["aaData"].v

IsRow(e) == e.t \in {"list", "dict"}

RowPositions(l) == {i \in 1..Len(l) : IsRow(l[i])}

\* C3 as stated: a well-formed structured response with a non-empty list
\* never leads to the HTML request and gives one record per list element.
StructuredOnePerElement ==
    (Fetched /\ WellFormed(fin.api) /\ KnownList(fin.api) # <<>>)
        => /\ fout.reqs = <<"api">>
           /\ Len(fout.records) = Len(KnownList(fin.api))

\* C3 amended: when the list holds at least one element that is a list or a
\* mapping, the HTML request is not issued and there is one record per such
\* element; elements of any other type give no record.
StructuredOnePerRow ==
    (Fetched /\ WellFormed(fin.api) /\ RowPositions(KnownList(fin.api)) # {})
        => /\ fout.reqs = <<"api">>
           /\ ~fout.raised
           /\ Len(fout.records) = Cardinality(RowPositions(KnownList(fin.api)))
           /\ \A k \in 1..Len(fout.records) : fout.records[k].account = fin.email

StructuredOnePerRowWitness ==
    /\ Fetched
    /\ WellFormed(fin.api)
    /\ Len(KnownList(fin.api)) = 2
    /\ Cardinality(RowPositions(KnownList(fin.api))) = 1
    /\ Len(fout.records) = 1
    /\ fout.reqs = <<"api">>

\* the four ways the structured strategy comes back without a record
NoStructuredRecord(api) ==
    \/ api.kind = "raise"
    \/ /\ api.kind = "api"
       /\ \/ ~api.json
          \/ ~(IsList(api.body, "data") \/ IsList(api.body, "aaData"))
          \/ KnownList(api) = <<>>

\* C4: when the structured strategy yields no record the fetch does not
\* raise and issues the HTML request; when that request raises or the page has
\* no table the fetch returns the empty list.
FallbackNeverRaises ==
    (Fetched /\ NoStructuredRecord(fin.api))
        => /\ ~fout.raised
           /\ fout.reqs = <<"api", "html">>
           /\ (fin.page.kind = "raise" \/ ~fin.page.table)
                 => fout.records = <<>>

FallbackNeverRaisesWitness ==
    /\ Fetched
    /\ fin.api.kind = "raise"
    /\ fin.page.kind = "raise"
    /\ fout.records = <<>>
    /\ fout.reqs = <<"api", "html">>

FromHtml == Fetched /\ fout.reqs = <<"api", "html">> /\ fin.page.kind = "html"
                /\ fin.page.table

FromApi == Fetched /\ fout.reqs = <<"api">>

KeptTrs(trs) == SelectSeq([i \in 1..Len(trs) |-> i], LAMBDA i : trs[i] # <<>>)

\* the positions of the list elements that are lists or mappings, in order
KeptRows(l) == SelectSeq([i \in 1..Len(l) |-> i], LAMBDA i : IsRow(l[i]))

Padded(cells, i) == IF i <= Len(cells) THEN cells[i] ELSE Empty

PaddedFields(rec, cells) ==
    /\ rec.cli = Padded(cells, 1)
    /\ rec.to = Padded(cells, 2)
    /\ rec.time = Padded(cells, 3)
    /\ rec.duration = Padded(cells, 4)
    /\ rec.type = Padded(cells, 5)

Joined(rec) == rec.account \o <<"_">> \o rec.cli \o <<"_">> \o rec.time

\* the caller and the timestamp a keyed row carries under a single alias
KeyedCli(row) == IF "cli" \in DOMAIN row THEN row["cli"] ELSE row["source"]

SingleAlias(row) == ~({"cli", "source"} \subseteq DOMAIN row)
                        /\ {"cli", "source"} \cap DOMAIN row # {}
                        /\ "time" \in DOMAIN row

ScenarioARecord ==
    [id |-> SMail \o <<"_">> \o S100 \o <<"_">> \o STime, cli |-> S100,
     to |-> S200, time |-> STime, duration |-> S30, type |-> SAnswered,
     account |-> SMail]

\* C6: the identity of every record, from a columnar row, a keyed row or a
\* table row, is the account, the caller and the timestamp joined by "_";
\* a columnar and a keyed row of one response with equal caller and timestamp
\* get the same identity; Scenario A gives exactly its one record.
IdentityIsJoin ==
    /\ Fetched =>
         \A k \in 1..Len(fout.records) :
            /\ fout.records[k].account = fin.email
            /\ fout.records[k].id = Joined(fout.records[k])
    /\ FromApi =>
         LET l == KnownList(fin.api)
             at == KeptRows(l)
         IN  /\ \A k \in 1..Len(at) :
                  /\ (l[at[k]].t = "list" /\ Len(l[at[k]].v) >= 3) =>
                        fout.records[k].id =
                            fin.email \o <<"_">> \o l[at[k]].v[1] \o <<"_">>
                                \o l[at[k]].v[3]
                  /\ (l[at[k]].t = "dict" /\ SingleAlias(l[at[k]].v)) =>
                        fout.records[k].id =
                            fin.email \o <<"_">> \o KeyedCli(l[at[k]].v)
                                \o <<"_">> \o l[at[k]].v["time"]
    /\ FromHtml =>
         LET trs == fin.page.trs
             at == KeptTrs(trs)
         IN  \A k \in 1..Len(at) :
                Len(trs[at[k]]) >= 3 =>
                    fout.records[k].id =
                        fin.email \o <<"_">> \o Strip(trs[at[k]][1]) \o <<"_">>
                            \o Strip(trs[at[k]][3])
    /\ (Fetched /\ fin.email = SMail /\ fin.api = ScenarioA) =>
         fout.records = <<ScenarioARecord>>

IdentityIsJoinWitness ==
    /\ Fetched
    /\ fin.email = SMail
    /\ fin.api = ScenarioA
    /\ Len(fout.records) = 1
    /\ fout.records[1].id = SMail \o <<"_">> \o S100 \o <<"_">> \o STime

\* ------------------------------------------------------------------------
\* Properties of the worker system (checked under Spec)
\* ------------------------------------------------------------------------
\* the records the last response of a cycle's fetch yields for worker w
Yielded(w) ==
    IF raw[w] = <<>> THEN <<>>
    ELSE LET r == raw[w][Len(raw[w])]
         IN  IF r.kind = "api" THEN StructuredRecords(ACCOUNTS[w].email, r)
             ELSE IF r.kind = "html" THEN HtmlRecords(ACCOUNTS[w].email, r)
             ELSE <<>>

YieldedIds(w) == {Yielded(w)[i].id : i \in 1..Len(Yielded(w))}

\* C1: over all check-then-add attempts of all workers on one identity,
\* exactly one observed "not present" and inserted it: every identity in
\* seen_ids was inserted exactly once, whichever workers fetched it.
InsertedExactlyOnce ==
    /\ seen_ids \subseteq DOMAIN stats
    /\ \A id \in DOMAIN stats : stats[id].ins = 1
    /\ \A w \in Workers : added[w] <= Cardinality(YieldedIds(w))

\* two workers of the same account have both fetched the same record in
\* their first cycle and finished dispatching: one of them inserted it
InsertedExactlyOnceWitness ==
    \E w1, w2 \in Workers :
        /\ w1 # w2
        /\ ACCOUNTS[w1].email = ACCOUNTS[w2].email
        /\ pc[w1] = "sleep" /\ pc[w2] = "sleep"
        /\ cycle[w1] = 1 /\ cycle[w2] = 1
        /\ YieldedIds(w1) # {}
        /\ YieldedIds(w1) = YieldedIds(w2)
        /\ added[w1] = Cardinality(YieldedIds(w1))
        /\ added[w2] = 0

\* C2: a cycle whose fetch received what the previous cycle's fetch received
\* sends nothing and inserts nothing.
SecondRunSendsNothing ==
    \A w \in Workers : same[w] => (sent[w] = 0 /\ added[w] = 0)

SecondRunSendsNothingWitness ==
    \E w \in Workers :
        /\ same[w]
        /\ pc[w] = "sleep"
        /\ cycle[w] = 2
        /\ Len(Yielded(w)) = 2
        /\ sent[w] = 0

\* C7: a record is passed over as already seen only when a worker of the
\* same account inserted its identity.
NoCrossAccountDuplicate ==
    \A w \in Workers :
        \A i \in 1..Len(records[w]) :
            records[w][i].id \in DOMAIN stats
                => stats[records[w][i].id].by = records[w][i].account

\* C8: an identity once inserted stays in seen_ids, send_record_to_telegram
\* is called at most once for it over all cycles of all workers, and
\* seen_ids never loses an element.
DispatchOnce ==
    /\ [](/\ DOMAIN stats \subseteq seen_ids
          /\ \A id \in DOMAIN stats : stats[id].calls <= 1)
    /\ [][seen_ids \subseteq seen_ids']_vars

\* both sends of a record failed in one worker's first cycle; another worker
\* fetched the record in its second cycle and sent nothing
DispatchOnceWitness ==
    \E w, v \in Workers :
        /\ cycle[w] = 1
        /\ pc[w] = "sleep"
        /\ last[w].sends = <<"fail", "fail">>
        /\ stats[last[w].id].calls = 1
        /\ v # w
        /\ cycle[v] = 2
        /\ pc[v] = "sleep"
        /\ last[w].id \in YieldedIds(v)
        /\ sent[v] = 0

\* C9: one call sends to CHAT_ID at most twice; after a failure and a
\* successful retry there is no message to OWNER_ID; a message to OWNER_ID,
\* naming the record id, is sent exactly when both sends failed and OWNER_ID
\* is set; the record stays in seen_ids and the cycle does not end in the
\* worker's exception handler.
SendFailureHandling ==
    \A w \in Workers :
        last[w] # NoSend =>
            /\ Len(last[w].sends) \in 1..2
            /\ Len(last[w].sends) = 2 => last[w].sends[1] = "fail"
            /\ last[w].sends = <<"fail", "ok">> =>
                  (last[w].alerts = <<>> /\ stats[last[w].id].ins = 1)
            /\ IF last[w].sends = <<"fail", "fail">> /\ OWNER_ID # 0
               THEN last[w].alerts = <<last[w].id>>
               ELSE last[w].alerts = <<>>
            /\ last[w].id \in seen_ids
            /\ sent[w] > 0 => ~err[w]

SendFailureHandlingWitness ==
    \E w \in Workers :
        /\ OWNER_ID # 0
        /\ pc[w] = "sleep"
        /\ sent[w] = 1
        /\ last[w].sends = <<"fail", "ok">>
        /\ last[w].alerts = <<>>

\* the POST response shows no marker and is still on the login path
StillOnLogin(r) ==
    /\ r.kind = "post"
    /\ \A i \in 1..Len(r.text) :
          LowerWord(r.text[i]) \notin {"logout", "dashboard"}
    /\ r.path # <<>> /\ r.path[Len(r.path)] = "login"

\* C10: a cycle whose login failed has issued only the two login requests,
\* has inserted and sent nothing, and is at the sleep; the cycle after it
\* starts with the login page GET again.
FailedLoginSkipsCycle ==
    \A w \in Workers :
        /\ (raw[w] # <<>> /\ StillOnLogin(raw[w][1])) =>
              /\ reqs[w] = <<"login_get", "login_post">>
              /\ added[w] = 0 /\ sent[w] = 0
              /\ pc[w] = "sleep"
              /\ ~err[w]
        /\ (prevRaw[w] # <<>> /\ StillOnLogin(prevRaw[w][1])) =>
              /\ pc[w] \in {"login_get", "login_post", "api_get", "html_get"}
              /\ reqs[w][1] = "login_get"

\* after a failed login the next cycle logged in, fetched and sent a record
FailedLoginSkipsCycleWitness ==
    \E w \in Workers :
        /\ cycle[w] = 2
        /\ raw[w] # <<>> /\ ~StillOnLogin(raw[w][1])
        /\ sent[w] = 1
        /\ stats[last[w].id].calls = 1
        /\ \E v \in Workers : v # w /\ raw[v] # <<>> /\ StillOnLogin(raw[v][1])
                                 /\ cycle[v] = 2

\* ------------------------------------------------------------------------
\* Properties of the worker loop (checked under FairSpec)
\* ------------------------------------------------------------------------
InCycle ==
    {"login_get", "login_post", "api_get", "html_get", "send1", "send2",
     "send_owner"}

Running == InCycle \cup {"sleep"}

\* C11: a worker inside its loop never leaves it; a cycle that ended in the
\* exception handler, and a cycle whose fetch gave no record, is at the
\* sleep; every cycle, whatever its outcome, reaches the sleep; and every
\* sleep (below the cycle bound of the model) is followed by the login page
\* GET of another cycle.
WorkerNeverStops ==
    /\ [][\A w \in Workers : pc[w] \in Running => pc'[w] \in Running]_vars
    /\ [](\A w \in Workers :
            /\ err[w] => pc[w] = "sleep"
            /\ pc[w] \in {"send1", "send2", "send_owner"} => Yielded(w) # <<>>)
    /\ \A w \in WorkerIds :
          /\ [](w \in Workers /\ pc[w] \in InCycle
                   => <>(w \in Workers /\ pc[w] = "sleep"))
          /\ [](w \in Workers /\ pc[w] = "sleep" /\ cycle[w] < MaxCycles
                   => <>(w \in Workers /\ pc[w] = "login_get"
                            /\ cycle[w] > 1))

\* one worker has begun its second cycle after a cycle ended by an exception
\* of a login request, another after a cycle that fetched no record
WorkerNeverStopsWitness ==
    \E w, v \in Workers :
        /\ cycle[w] = 2 /\ pc[w] = "login_get"
        /\ prevRaw[w] = <<Raise>>
        /\ cycle[v] = 2 /\ pc[v] = "login_get"
        /\ Len(prevRaw[v]) = 3
        /\ prevRaw[v][3].kind = "html"
        /\ HtmlRecords(ACCOUNTS[v].email, prevRaw[v][3]) = <<>>

\* worker w takes a step
Steps(w) == <<pc[w], cycle[w], idx[w]>>' # <<pc[w], cycle[w], idx[w]>>

\* C12: while the first entry's task fails in every cycle or never returns
\* from an awaited call, a step of one worker changes the position of no
\* other worker, of the heartbeat or of main; the second entry's worker
\* still completes each cycle and starts its next one; at its sleep every
\* record it fetched is in seen_ids; and the heartbeat keeps alternating
\* between its send and its sleep.
WorkerIsolation ==
    /\ [][\A w \in Workers :
            (mainpc = "polling" /\ Steps(w)) =>
                /\ \A v \in Workers \ {w} : pc'[v] = pc[v]
                /\ hb' = hb
                /\ mainpc' = mainpc]_vars
    /\ [][(hb = "send" \/ hb = "sleep") => (hb' = "send" \/ hb' = "sleep")]_vars
    /\ [](\A w \in Workers :
            (pc[w] = "sleep" /\ ~err[w]) => YieldedIds(w) \subseteq seen_ids)
    /\ [](2 \in Workers /\ pc[2] \in InCycle
             => <>(2 \in Workers /\ pc[2] = "sleep"))
    /\ [](2 \in Workers /\ pc[2] = "sleep" /\ cycle[2] < MaxCycles
             => <>(2 \in Workers /\ pc[2] = "login_get" /\ cycle[2] > 1))
    /\ [](hb = "send" => <>(hb = "sleep"))
    /\ [](hb = "sleep" => <>(hb = "send"))

\* the first worker still waits for its first response; the second one has
\* finished its second cycle and sent a record in it, the heartbeat has sent
WorkerIsolationWitness ==
    /\ Workers = {1, 2}
    /\ cycle[1] = 1 /\ pc[1] = "login_get"
    /\ cycle[2] = 2 /\ pc[2] = "sleep"
    /\ sent[2] > 0
    /\ last[2].id \in seen_ids
    /\ hb = "sleep"

\* ------------------------------------------------------------------------
\* Properties of the login steps (checked under SpecLogin)
\* ------------------------------------------------------------------------
LoggedIn == fout # NoFetch

\* the <input> elements of the page that are named "_token"
TokenFields(html) == SelectSeq(html, LAMBDA e : e.name = "_token")

\* C13: with no input named "_token" on the login page, or with one whose
\* value is missing or empty, the POST is issued with the identifier and the
\* secret only; with one whose value is not empty the POST carries that
\* value under "_token".
TokenHandling ==
    LoggedIn =>
        LET f == TokenFields(fin.html)
        IN  /\ fout.reqs = <<"login_get", "login_post">>
            /\ fout.payload["email"] = fin.email
            /\ fout.payload["password"] = fin.password
            /\ IF f = <<>> \/ ~f[1].hasValue \/ f[1].value = <<>>
               THEN DOMAIN fout.payload = {"email", "password"}
               ELSE /\ DOMAIN fout.payload = {"email", "password", "_token"}
                    /\ fout.payload["_token"] = f[1].value

\* the page has an input named "email" with a value and, after it, an
\* input named "_token" with an empty value: the POST has no "_token"
TokenHandlingWitness ==
    /\ LoggedIn
    /\ Len(fin.html) = 2
    /\ fin.html[1] = Input("email", TRUE, SA)
    /\ fin.html[2] = Input("_token", TRUE, Empty)
    /\ DOMAIN fout.payload = {"email", "password"}

\* the body holds "logout" or "dashboard" in some capitalisation
HasMarker(text) ==
    \E i \in 1..Len(text) :
        text[i] \in {"logout", "Logout", "LOGOUT", "dashboard", "Dashboard"}

\* the path of LOGIN_URL
LoginPath == <<"login">>

TasksOf(t) == {i \in DOMAIN tasks : tasks[i] = t}

\* C15: once main is in run_polling the required settings are present and
\* on_post_init has created one account_worker task for each entry and one
\* heartbeat_task, and nothing else; they all exist while any of them has
\* still to run for the first time; when main has returned instead, a
\* required setting is missing and no task exists.
SupervisorStartup ==
    /\ mainpc = "polling" =>
          /\ BOT_TOKEN # 0 /\ CHAT_ID # 0 /\ ACCOUNTS # <<>>
          /\ Len(tasks) = Len(ACCOUNTS) + 1
          /\ \A w \in Workers : Cardinality(TasksOf(WorkerTask(w))) = 1
          /\ Cardinality(TasksOf(HeartbeatTask)) = 1
          /\ \A w \in Workers : pc[w] # "none"
          /\ hb # "none"
    /\ mainpc # "polling" =>
          /\ tasks = <<>>
          /\ \A w \in Workers : pc[w] = "none"
          /\ hb = "none"
    /\ mainpc = "exit" <=>
          (BOT_TOKEN = 0 \/ CHAT_ID = 0 \/ ACCOUNTS = <<>>) /\ mainpc # "start"

\* on_post_init has returned: the three tasks exist and none has run yet
SupervisorStartupWitness ==
    /\ Workers = {1, 2}
    /\ pc[1] = "created" /\ cycle[1] = 0
    /\ pc[2] = "created" /\ cycle[2] = 0
    /\ hb = "created"
    /\ tasks = <<WorkerTask(1), WorkerTask(2), HeartbeatTask>>

\* ------------------------------------------------------------------------
\* Properties of the order within a cycle (checked under Spec)
\* ------------------------------------------------------------------------
FetchPcs == {"login_get", "login_post", "api_get", "html_get"}

SendPcs == {"send1", "send2", "send_owner"}

Pending(l) == \E i \in 1..Len(l.sends) : l.sends[i] = "pending"

\* C16: while a request of the cycle's fetch is outstanding the cycle has
\* added nothing to seen_ids and sent nothing; while a send is outstanding
\* every request the fetch issued has its response; at the sleep no send is
\* outstanding; a cycle whose fetch raised has added and sent nothing.
SequentialCycle ==
    \A w \in Workers :
        /\ pc[w] \in FetchPcs =>
              (added[w] = 0 /\ sent[w] = 0 /\ last[w] = NoSend)
        /\ pc[w] \in SendPcs =>
              /\ Len(raw[w]) = Len(reqs[w]) - 1
              /\ raw[w][Len(raw[w])].kind \in {"api", "html"}
              /\ added[w] = sent[w]
              /\ sent[w] <= Len(Yielded(w))
        /\ pc[w] \in {"send1", "send2"} <=> Pending(last[w])
        /\ pc[w] = "sleep" => (~Pending(last[w]) /\ added[w] = sent[w])
        /\ err[w] => (added[w] = 0 /\ sent[w] = 0 /\ pc[w] = "sleep")

\* one worker sleeps after the two sends of its cycle returned; the other
\* is waiting for the HTML page and has added nothing
SequentialCycleWitness ==
    \E w, v \in Workers :
        /\ pc[w] = "sleep"
        /\ sent[w] = 2
        /\ reqs[w] = <<"login_get", "login_post", "api", "html">>
        /\ last[w].sends = <<"fail", "ok">>
        /\ pc[v] = "html_get"
        /\ added[v] = 0

AllRequests == <<"login_get", "login_post", "api", "html">>

CdrRequested(w) == \E i \in 1..Len(reqs[w]) : reqs[w][i] \in {"api", "html"}

\* C17: the requests of every cycle, the first one and each later one, are
\* the login page GET, the login POST, the structured request and the HTML
\* request, in this order and up to the point the cycle has reached; a
\* cycle has issued a CDR request only after its own login POST returned a
\* response that shows a marker or has left the login path.
AlwaysReauthenticates ==
    \A w \in Workers :
        /\ cycle[w] > 0 =>
              /\ Len(reqs[w]) \in 1..4
              /\ reqs[w] = SubSeq(AllRequests, 1, Len(reqs[w]))
        /\ pc[w] = "login_get" => reqs[w] = <<"login_get">>
        /\ pc[w] = "login_post" => reqs[w] = <<"login_get", "login_post">>
        /\ CdrRequested(w) =>
              /\ raw[w] # <<>>
              /\ raw[w][1].kind = "post"
              /\ ~StillOnLogin(raw[w][1])

\* the first cycle logged in and fetched; the second cycle has issued the
\* login page GET and the login POST again, and then the structured request
AlwaysReauthenticatesWitness ==
    \E w \in Workers :
        /\ cycle[w] = 2
        /\ pc[w] = "api_get"
        /\ reqs[w] = <<"login_get", "login_post", "api">>
        /\ Len(prevRaw[w]) >= 2
        /\ prevRaw[w][1].kind = "post"
        /\ ~StillOnLogin(prevRaw[w][1])
        /\ prevRaw[w][2].kind = "api"

\* ------------------------------------------------------------------------
\* Properties of keyed rows (checked under SpecFetch)
\* ------------------------------------------------------------------------
\* the structured response is a "data" list of one keyed row
OneKeyedRow ==
    /\ Fetched
    /\ WellFormed(fin.api)
    /\ IsList(fin.api.body, "data")
    /\ Len(KnownList(fin.api)) = 1
    /\ KnownList(fin.api)[1].t = "dict"

TheKeyedRow == KnownList(fin.api)[1].v

CallerAliases == <<"cli", "source", "caller", "from">>

Has(row, k) == k \in DOMAIN row

Filled(row, k) == k \in DOMAIN row /\ row[k] # <<>>

\* val is the value of the first alias present in the row, or empty if none is
FromFirstPresent(row, keys, val) ==
    \/ \E i \in 1..Len(keys) :
          /\ Has(row, keys[i])
          /\ \A j \in 1..(i - 1) : ~Has(row, keys[j])
          /\ val = row[keys[i]]
    \/ (\A i \in 1..Len(keys) : ~Has(row, keys[i])) /\ val = <<>>

\* val is the value of the first alias present with a non-empty value, or
\* empty if there is none
FromFirstFilled(row, keys, val) ==
    \/ \E i \in 1..Len(keys) :
          /\ Filled(row, keys[i])
          /\ \A j \in 1..(i - 1) : ~Filled(row, keys[j])
          /\ val = row[keys[i]]
    \/ (\A i \in 1..Len(keys) : ~Filled(row, keys[i])) /\ val = <<>>

\* C18 as stated: a keyed row gives one record, each field of which is the
\* value of the first alias whose key is present in the row.
AliasFirstPresent ==
    OneKeyedRow =>
        /\ Len(fout.records) = 1
        /\ FromFirstPresent(TheKeyedRow, CallerAliases, fout.records[1].cli)
        /\ FromFirstPresent(TheKeyedRow, ToKeys, fout.records[1].to)
        /\ FromFirstPresent(TheKeyedRow, TimeKeys, fout.records[1].time)
        /\ FromFirstPresent(TheKeyedRow, DurationKeys, fout.records[1].duration)
        /\ FromFirstPresent(TheKeyedRow, TypeKeys, fout.records[1].type)

\* C18, amended: a keyed row gives one record, each field of which is the
\* value of the first alias present with a non-empty value: an alias that
\* is present with an empty value is passed over.
AliasFirstFilled ==
    OneKeyedRow =>
        /\ Len(fout.records) = 1
        /\ fout.reqs = <<"api">>
        /\ FromFirstFilled(TheKeyedRow, CallerAliases, fout.records[1].cli)
        /\ FromFirstFilled(TheKeyedRow, ToKeys, fout.records[1].to)
        /\ FromFirstFilled(TheKeyedRow, TimeKeys, fout.records[1].time)
        /\ FromFirstFilled(TheKeyedRow, DurationKeys, fout.records[1].duration)
        /\ FromFirstFilled(TheKeyedRow, TypeKeys, fout.records[1].type)

\* "cli" is present and empty, "source" is absent, "caller" holds "b" and
\* "from" holds "a": the caller of the record is "b"
AliasFirstFilledWitness ==
    /\ OneKeyedRow
    /\ DOMAIN TheKeyedRow = {"cli", "caller", "from"}
    /\ TheKeyedRow["cli"] = Empty
    /\ TheKeyedRow["caller"] = SB
    /\ TheKeyedRow["from"] = SA
    /\ Len(fout.records) = 1
    /\ fout.records[1].cli = SB

\* ------------------------------------------------------------------------
\* Properties of the order of marking and sending (checked under Spec)
\* ------------------------------------------------------------------------
\* the identities worker w has gone through in its for loop so far
Examined(w) == {records[w][i].id : i \in 1..idx[w]}

\* C19: the record of every send_record_to_telegram call, outstanding or
\* returned, is in seen_ids, and so is every record the for loop has gone
\* through; the step that inserts an identity found it absent and is the
\* step that issues the first send for it, so no other task runs between
\* the test, the insertion and the send.
MarkBeforeSend ==
    /\ [](\A w \in Workers :
            /\ last[w] # NoSend => last[w].id \in seen_ids
            /\ pc[w] \in SendPcs =>
                  /\ records[w][idx[w]].id = last[w].id
                  /\ Examined(w) \subseteq seen_ids)
    /\ [](\A id \in DOMAIN stats :
            stats[id].calls > 0 => (id \in seen_ids /\ stats[id].ins > 0))
    /\ [][seen_ids' # seen_ids =>
            \E w \in Workers :
                /\ seen_ids' = seen_ids \cup {last'[w].id}
                /\ last'[w].id \notin seen_ids
                /\ last'[w].sends = <<"pending">>
                /\ pc'[w] = "send1"
                /\ sent'[w] = sent[w] + 1]_vars

\* the first send of a record is outstanding and the record is already in
\* seen_ids; the other worker has fetched the same record and passed it over
MarkBeforeSendWitness ==
    \E w, v \in Workers :
        /\ pc[w] = "send1"
        /\ last[w].sends = <<"pending">>
        /\ last[w].id \in seen_ids
        /\ v # w
        /\ pc[v] = "sleep"
        /\ last[w].id \in YieldedIds(v)
        /\ sent[v] = 0

\* ------------------------------------------------------------------------
\* Properties of incomplete account entries (checked under Spec)
\* ------------------------------------------------------------------------
Incomplete(acc) == acc.email = <<>> \/ acc.password = <<>>

\* C20: the worker of an entry without identifier or without secret never
\* enters the loop: it has issued no request, added nothing to seen_ids and
\* sent nothing, in every state; only such a worker returns; and what is in
\* seen_ids was put there by a worker of a complete entry.
IncompleteEntryReturns ==
    \A w \in Workers :
        /\ Incomplete(ACCOUNTS[w]) =>
              /\ pc[w] \in {"none", "created", "returned"}
              /\ cycle[w] = 0
              /\ reqs[w] = <<>> /\ raw[w] = <<>> /\ payload[w] = <<>>
              /\ records[w] = <<>>
              /\ added[w] = 0 /\ sent[w] = 0 /\ last[w] = NoSend
              /\ ~err[w]
              /\ \A id \in seen_ids :
                    \E v \in Workers \ {w} :
                        /\ ~Incomplete(ACCOUNTS[v])
                        /\ stats[id].by = ACCOUNTS[v].email
        /\ pc[w] = "returned" => Incomplete(ACCOUNTS[w])

\* the first entry has no identifier and its worker has returned; the
\* second entry's worker has sent a record and the heartbeat has sent
IncompleteEntryReturnsWitness ==
    /\ Workers = {1, 2}
    /\ ACCOUNTS[1].email = Empty
    /\ pc[1] = "returned"
    /\ pc[2] = "sleep"
    /\ sent[2] > 0
    /\ seen_ids # {}
    /\ hb = "sleep"
====
